---- MODULE Spec2Model ----
(***************************************************************************)
(* TV reminders dashboard (src/app.py): the screen paginator, the          *)
(* working-day calculator, the loan-string parser and formatter, the       *)
(* reminder organiser and the display composer, as state machines.         *)
(***************************************************************************)
EXTENDS Integers, Sequences, FiniteSets, TLC

\* ------------------------------------------------------------- bounds
MaxToday == 5        \* longest today-reminder list given to the paginator
MaxPagLoans == 2     \* longest loan list given to the paginator
MaxTomorrow == 5     \* longest tomorrow-reminder list given to the paginator
MaxCap == 7          \* largest per-screen capacity tried
\* No terminating run appends more screens than there are items, so this cap
\* only cuts the runs whose loop never ends.
MaxLen == 6          \* longest loan string given to the parser
MaxStartDay == 6     \* latest day on which a display request starts
MaxTicks == 1        \* midnights that may pass during one request
MaxLoans == 4        \* longest loan list the loans service returns
MaxRows == 2         \* most rows of a reminders table at the start
MaxWeekLen == 2      \* longest week-type string drawn over the alphabet
MaxRequests == 1     \* management requests handled in one run
MaxScreens == MaxToday + MaxPagLoans + MaxTomorrow + 1

VARIABLES
    \* calculate_pagination_info: parameters, locals, control point, result
    today_reminders, tomorrow_reminders, active_loans, max_per_screen,
    today_items, remaining_today, remaining_tomorrow,
    screens, screen_today, screen_tomorrow, screen_count,
    pag_pc, pag_result,
    \* parse_loan_string: argument, control point, returned record
    loan_string, parse_pc, parsed_loan,
    \* the wall clock (a day number; day 0 is a Monday), the midnights it has
    \* passed during the request in hand, and the reminders table
    clock, ticks, db,
    \* tv_display: locals (nwd_today and name_today are the local "today" of
    \* get_next_working_day and get_next_working_day_name), control point
    today, nwd_today, next_working_day, name_today, next_day_name,
    tv_today_reminders, next_day_reminders,
    loans_response, active_loans_raw, formatted_loans, active_loans_formatted,
    tv_pc,
    \* get_all_reminders_organized: today, the fetched ids, whether the table
    \* was read, the two lists, control point, returned dict
    org_today, org_rows, org_read, current_reminders, old_reminders,
    org_pc, reminders_data,
    \* the management requests: the last id AUTOINCREMENT gave, the requests
    \* handled, the last request and its response
    last_id, requests, mg_request, mg_response,
    \* the week type: the schedule service's answer, what
    \* get_week_type_from_api returned, and what it returns for its own result
    week_response, week_type, week_again, wk_pc

pagVars == <<today_reminders, tomorrow_reminders, active_loans, max_per_screen,
             today_items, remaining_today, remaining_tomorrow,
             screens, screen_today, screen_tomorrow, screen_count,
             pag_pc, pag_result>>

parseVars == <<loan_string, parse_pc, parsed_loan>>

envVars == <<clock, ticks, db>>
tvVars == <<today, nwd_today, next_working_day, name_today, next_day_name,
            tv_today_reminders, next_day_reminders,
            loans_response, active_loans_raw, formatted_loans,
            active_loans_formatted, tv_pc>>

orgVars == <<org_today, org_rows, org_read, current_reminders, old_reminders,
             org_pc, reminders_data>>

mgVars == <<last_id, requests, mg_request, mg_response>>

wkVars == <<week_response, week_type, week_again, wk_pc>>

vars == <<pagVars, parseVars, envVars, tvVars, orgVars, mgVars, wkVars>>

None == "None"

\* ------------------------------------------------------------ helpers
RECURSIVE ConcatAll(_)
ConcatAll(ss) == IF ss = <<>> THEN <<>> ELSE Head(ss) \o ConcatAll(Tail(ss))

ScreenToday(ss) == [i \in 1..Len(ss) |-> ss[i].today_reminders]
ScreenTomorrow(ss) == [i \in 1..Len(ss) |-> ss[i].tomorrow_reminders]

\* ---------------------------------------------------------------- strings
\* A Python str is a sequence of one-character strings.
Space == " "
Unknown == <<"U", "n", "k", "n", "o", "w", "n">>
Separator == <<" ", "-", " ">>

\* str.rfind(c): the last position of c (1-based), 0 when absent (Python: -1).
RFind(s, c) ==
    IF \E i \in 1..Len(s) : s[i] = c
    THEN CHOOSE i \in 1..Len(s) : s[i] = c /\ \A j \in (i + 1)..Len(s) : s[j] # c
    ELSE 0

\* c in s
Contains(s, c) == \E i \in 1..Len(s) : s[i] = c

\* str.strip(): leading and trailing whitespace removed.
RECURSIVE LStrip(_)
LStrip(s) == IF s # <<>> /\ Head(s) = Space THEN LStrip(Tail(s)) ELSE s
RECURSIVE RStrip(_)
RStrip(s) ==
    IF s # <<>> /\ s[Len(s)] = Space THEN RStrip(SubSeq(s, 1, Len(s) - 1)) ELSE s
Strip(s) == RStrip(LStrip(s))

\* sep occurs in s at position i
OccursAt(s, sep, i) ==
    /\ i >= 1 /\ i + Len(sep) - 1 <= Len(s)
    /\ SubSeq(s, i, i + Len(sep) - 1) = sep

\* sep in s
ContainsSeq(s, sep) == \E i \in 1..Len(s) : OccursAt(s, sep, i)

\* s.split(sep, 1) when sep occurs in s: the text before the first occurrence
\* and the text after it.
SplitOnce(s, sep) ==
    LET i == CHOOSE k \in 1..Len(s) :
                 OccursAt(s, sep, k) /\ \A j \in 1..(k - 1) : ~OccursAt(s, sep, j)
    IN <<SubSeq(s, 1, i - 1), SubSeq(s, i + Len(sep), Len(s))>>

\* ------------------------------------------------------ parse_loan_string
\* Line 220, the end of the days slice: str.rfind(')').
ClosingParen(s) == RFind(s, ")")

\* Line 228: student = parts[0].strip()
StudentOf_Unstripped(parts) == parts[1]
StudentOf(parts) == Strip(parts[1])

\* Line 229: item = parts[1].strip()
ItemOf(parts) == Strip(parts[2])

\* Lines 215-241. Every operation of the try block is defined on every str,
\* so the handler of lines 243-249 is not entered for a str argument.
ParseLoanString(s) ==
    LET last_paren_index == RFind(s, "(")
        has_days == /\ last_paren_index # 0
                    /\ Contains(SubSeq(s, last_paren_index, Len(s)), ")")
        closing_paren == ClosingParen(s)
        days == IF has_days
                THEN SubSeq(s, last_paren_index + 1, closing_paren - 1)
                ELSE <<>>
        clean_string == IF has_days
                        THEN Strip(SubSeq(s, 1, last_paren_index - 1))
                        ELSE Strip(s)
    IN IF ContainsSeq(clean_string, Separator)
       THEN LET parts == SplitOnce(clean_string, Separator)
            IN [student |-> StudentOf(parts), item |-> ItemOf(parts), days |-> days]
       ELSE [student |-> IF clean_string # <<>> THEN clean_string ELSE Unknown,
             item |-> Unknown,
             days |-> days]

Alphabet == {"a", "(", ")", " ", "-"}

RECURSIVE StringsOfLen(_)
StringsOfLen(n) ==
    IF n = 0 THEN {<<>>}
    ELSE {Append(s, c) : s \in StringsOfLen(n - 1), c \in Alphabet}

Strings == UNION {StringsOfLen(n) : n \in 0..MaxLen}

ParseIdle == loan_string = <<>> /\ parse_pc = "idle" /\ parsed_loan = None

\* The call parse_loan_string(loan_string) runs to its return.
ParseCall ==
    /\ parse_pc = "start"
    /\ parsed_loan' = ParseLoanString(loan_string)
    /\ parse_pc' = "done"
    /\ UNCHANGED loan_string

\* ------------------------------------------- calculate_pagination_info
\* A plain item of the paginator's input: the paginator never looks inside.
Item(kind, n) == [kind |-> kind, n |-> n]
ItemList(kind, len) == [i \in 1..len |-> Item(kind, i)]

Caps == {0 - 1} \cup (0..MaxCap)

PagIdle ==
    /\ today_reminders = <<>> /\ tomorrow_reminders = <<>> /\ active_loans = <<>>
    /\ max_per_screen = 0
    /\ today_items = <<>> /\ remaining_today = <<>> /\ remaining_tomorrow = <<>>
    /\ screens = <<>> /\ screen_today = <<>> /\ screen_tomorrow = <<>>
    /\ screen_count = 0
    /\ pag_pc = "idle" /\ pag_result = None

\* The call: the arguments are bound and control enters the function.
PagCall(todays, tomorrow, loans, cap) ==
    /\ today_reminders' = todays
    /\ tomorrow_reminders' = tomorrow
    /\ active_loans' = loans
    /\ max_per_screen' = cap
    /\ today_items' = <<>> /\ remaining_today' = <<>> /\ remaining_tomorrow' = <<>>
    /\ screens' = <<>> /\ screen_today' = <<>> /\ screen_tomorrow' = <<>>
    /\ screen_count' = 0
    /\ pag_pc' = "start" /\ pag_result' = None

\* today_items = today_reminders[:] ; extend(active_loans) when it is non-empty
TodayItems(todays, loans) == IF loans # <<>> THEN todays \o loans ELSE todays

\* Line 472: everything fits on one screen.
FitsOneScreen_Strict(total_items, cap) == total_items < cap
FitsOneScreen(total_items, cap) == total_items <= cap

\* Lines 491 and 495: the screen being built still has a free slot.
ScreenHasRoom_OffByOne(count, cap) == count <= cap
ScreenHasRoom(count, cap) == count < cap

\* Lines 466-484: merge, the single-screen early return, or the loop set-up.
PagStart ==
    /\ pag_pc = "start"
    /\ LET items == TodayItems(today_reminders, active_loans)
           total_items == Len(items) + Len(tomorrow_reminders)
       IN /\ today_items' = items
          /\ IF FitsOneScreen(total_items, max_per_screen)
             THEN /\ pag_result' = [needs_pagination |-> FALSE,
                                    total_screens |-> 1,
                                    screens |-> <<[today_reminders |-> items,
                                                   tomorrow_reminders |-> tomorrow_reminders]>>]
                  /\ pag_pc' = "done"
                  /\ UNCHANGED <<remaining_today, remaining_tomorrow, screens>>
             ELSE /\ screens' = <<>>
                  /\ remaining_today' = items
                  /\ remaining_tomorrow' = tomorrow_reminders
                  /\ pag_pc' = "outer"
                  /\ UNCHANGED pag_result
    /\ UNCHANGED <<today_reminders, tomorrow_reminders, active_loans, max_per_screen,
                   screen_today, screen_tomorrow, screen_count>>

\* Line 486 true, lines 487-489: a new screen is begun.
PagOuterEnter ==
    /\ pag_pc = "outer"
    /\ remaining_today # <<>> \/ remaining_tomorrow # <<>>
    /\ Len(screens) < MaxScreens
    /\ screen_today' = <<>> /\ screen_tomorrow' = <<>> /\ screen_count' = 0
    /\ pag_pc' = "fill_today"
    /\ UNCHANGED <<today_reminders, tomorrow_reminders, active_loans, max_per_screen,
                   today_items, remaining_today, remaining_tomorrow, screens, pag_result>>

\* Line 486 false, lines 504-508: the paginated result is returned.
PagReturn ==
    /\ pag_pc = "outer"
    /\ remaining_today = <<>> /\ remaining_tomorrow = <<>>
    /\ pag_result' = [needs_pagination |-> TRUE,
                      total_screens |-> Len(screens),
                      screens |-> screens]
    /\ pag_pc' = "done"
    /\ UNCHANGED <<today_reminders, tomorrow_reminders, active_loans, max_per_screen,
                   today_items, remaining_today, remaining_tomorrow,
                   screens, screen_today, screen_tomorrow, screen_count>>

\* Lines 491-493: one item moves from the today queue to the screen.
PagFillToday ==
    /\ pag_pc = "fill_today"
    /\ IF remaining_today # <<>> /\ ScreenHasRoom(screen_count, max_per_screen)
       THEN /\ screen_today' = Append(screen_today, Head(remaining_today))
            /\ remaining_today' = Tail(remaining_today)
            /\ screen_count' = screen_count + 1
            /\ pag_pc' = "fill_today"
       ELSE /\ pag_pc' = "fill_tomorrow"
            /\ UNCHANGED <<screen_today, remaining_today, screen_count>>
    /\ UNCHANGED <<today_reminders, tomorrow_reminders, active_loans, max_per_screen,
                   today_items, remaining_tomorrow, screens, screen_tomorrow, pag_result>>

\* Lines 495-497: one item moves from the tomorrow queue to the screen.
PagFillTomorrow ==
    /\ pag_pc = "fill_tomorrow"
    /\ IF remaining_tomorrow # <<>> /\ ScreenHasRoom(screen_count, max_per_screen)
       THEN /\ screen_tomorrow' = Append(screen_tomorrow, Head(remaining_tomorrow))
            /\ remaining_tomorrow' = Tail(remaining_tomorrow)
            /\ screen_count' = screen_count + 1
            /\ pag_pc' = "fill_tomorrow"
       ELSE /\ pag_pc' = "append"
            /\ UNCHANGED <<screen_tomorrow, remaining_tomorrow, screen_count>>
    /\ UNCHANGED <<today_reminders, tomorrow_reminders, active_loans, max_per_screen,
                   today_items, remaining_today, screens, screen_today, pag_result>>

\* Lines 499-502: the screen is appended and the outer test is taken again.
PagAppend ==
    /\ pag_pc = "append"
    /\ screens' = Append(screens, [today_reminders |-> screen_today,
                                   tomorrow_reminders |-> screen_tomorrow])
    /\ pag_pc' = "outer"
    /\ UNCHANGED <<today_reminders, tomorrow_reminders, active_loans, max_per_screen,
                   today_items, remaining_today, remaining_tomorrow,
                   screen_today, screen_tomorrow, screen_count, pag_result>>

PagStep ==
    \/ PagStart
    \/ PagOuterEnter
    \/ PagReturn
    \/ PagFillToday
    \/ PagFillTomorrow
    \/ PagAppend

\* ------------------------------------------------------- dates and times
\* A date is a day number; day 0 is a Monday, so date.weekday() is d % 7.
\* A well-formed 'YYYY-MM-DD' string orders as its date does, and the model
\* holds dates as day numbers throughout.
Weekday(d) == d % 7

NULL == <<"NULL">>

DigitChars == <<"0", "1", "2", "3", "4", "5", "6", "7", "8", "9">>
Digit(n) == DigitChars[n + 1]
IsDigit(c) == \E n \in 0..9 : DigitChars[n + 1] = c
DigitValue(c) == CHOOSE n \in 0..9 : DigitChars[n + 1] = c

\* strftime('%H:%M:%S')
TimeStr(h, m, sec) ==
    <<Digit(h \div 10), Digit(h % 10), ":", Digit(m \div 10), Digit(m % 10), ":",
      Digit(sec \div 10), Digit(sec % 10)>>

\* The code point of a character of a time string (digits, then ':').
CharCode(c) == IF IsDigit(c) THEN 48 + DigitValue(c) ELSE 58

\* Python's and SQLite's str comparison: lexicographic by code point.
RECURSIVE StrLess(_, _)
StrLess(a, b) ==
    IF b = <<>> THEN FALSE
    ELSE IF a = <<>> THEN TRUE
    ELSE IF CharCode(Head(a)) # CharCode(Head(b))
         THEN CharCode(Head(a)) < CharCode(Head(b))
         ELSE StrLess(Tail(a), Tail(b))
StrLeq(a, b) == a = b \/ StrLess(a, b)

\* The null-time sentinel of lines 382, 405 and 422.
Sentinel == <<"2", "3", ":", "5", "9", ":", "5", "9">>

TwoDigits(s, i) == 10 * DigitValue(s[i]) + DigitValue(s[i + 1])
IsTwoDigits(s, i) == IsDigit(s[i]) /\ IsDigit(s[i + 1])

\* parse_time_safely on the zero-padded forms: '%H:%M:%S', else '%H:%M',
\* else None.
ParseTimeSafely(time_str) ==
    IF time_str = NULL \/ time_str = <<>> THEN [ok |-> FALSE]
    ELSE IF /\ Len(time_str) = 8
            /\ IsTwoDigits(time_str, 1) /\ time_str[3] = ":"
            /\ IsTwoDigits(time_str, 4) /\ time_str[6] = ":"
            /\ IsTwoDigits(time_str, 7)
            /\ TwoDigits(time_str, 1) <= 23 /\ TwoDigits(time_str, 4) <= 59
            /\ TwoDigits(time_str, 7) <= 59
    THEN [ok |-> TRUE, hour |-> TwoDigits(time_str, 1),
          minute |-> TwoDigits(time_str, 4), second |-> TwoDigits(time_str, 7)]
    ELSE IF /\ Len(time_str) = 5
            /\ IsTwoDigits(time_str, 1) /\ time_str[3] = ":"
            /\ IsTwoDigits(time_str, 4)
            /\ TwoDigits(time_str, 1) <= 23 /\ TwoDigits(time_str, 4) <= 59
    THEN [ok |-> TRUE, hour |-> TwoDigits(time_str, 1),
          minute |-> TwoDigits(time_str, 4), second |-> 0]
    ELSE [ok |-> FALSE]

AllDay == <<"A", "l", "l", " ", "D", "a", "y">>

\* format_time_for_display: strftime('%I:%M %p'), or 'All Day'.
FormatTimeForDisplay(time_str) ==
    LET t == ParseTimeSafely(time_str)
    IN IF t.ok
       THEN LET h12 == IF t.hour % 12 = 0 THEN 12 ELSE t.hour % 12
            IN <<Digit(h12 \div 10), Digit(h12 % 10), ":",
                 Digit(t.minute \div 10), Digit(t.minute % 10), " ",
                 IF t.hour < 12 THEN "A" ELSE "P", "M">>
       ELSE AllDay

\* ---------------------------------------------------- working-day calculator
\* get_next_working_day, given the value its datetime.now() returned.
GetNextWorkingDay_NoWeekendSkip(now) == now + 1
GetNextWorkingDay(now) == IF Weekday(now) = 4 THEN now + 3 ELSE now + 1

\* get_next_working_day_name, given the value its datetime.now() returned.
GetNextWorkingDayName(now) == IF Weekday(now) = 4 THEN "Monday" ELSE "Tomorrow"

\* is_weekend / is_monday / is_today_friday on a well-formed date.
IsWeekend(date) == Weekday(date) >= 5
IsMonday(date) == Weekday(date) = 0
IsTodayFriday(now) == Weekday(now) = 4

\* ------------------------------------------------------ the reminders table
Row(date, time, title) == [date |-> date, time |-> time, title |-> title]

\* create_db.py, insert_sample_data run on day `seed`: ten rows, ids 1..10.
SeedTable(seed) ==
    <<Row(seed, TimeStr(9, 0, 0), "Server Maintenance"),
      Row(seed, TimeStr(14, 0, 0), "Team Meeting"),
      Row(seed + 1, TimeStr(10, 0, 0), "Network Check"),
      Row(seed + 1, TimeStr(15, 0, 0), "Training Session"),
      Row(seed + 2, TimeStr(11, 0, 0), "Backup Verification"),
      Row(seed + 3, TimeStr(13, 0, 0), "Equipment Check"),
      Row(seed + 7, TimeStr(9, 30, 0), "Budget Meeting"),
      Row(seed + 8, TimeStr(14, 0, 0), "System Update"),
      Row(seed + 9, TimeStr(16, 0, 0), "Vendor Call"),
      Row(seed + 14, TimeStr(10, 0, 0), "Annual Review")>>

\* CASE WHEN time IS NULL THEN '23:59:59' ELSE time END
SqlTimeKey(time) == IF time = NULL THEN Sentinel ELSE time

\* The orders in which a set of ids can be listed.
Listings(ids) ==
    {f \in [1..Cardinality(ids) -> ids] :
        \A i, j \in 1..Cardinality(ids) : i # j => f[i] # f[j]}

\* get_reminders_for_date, the query of lines 378-383: the rows of the date in
\* any order the ORDER BY allows (rows with equal keys come in either order).
SelectForDate(table, date_str) ==
    LET ids == {i \in DOMAIN table : table[i].date = date_str}
    IN {f \in Listings(ids) :
           \A i, j \in 1..Len(f) :
               i < j => StrLeq(SqlTimeKey(table[f[i]].time), SqlTimeKey(table[f[j]].time))}

\* Lines 385-392: each fetched row as a dict with its display fields.
ReminderItem(table, id) ==
    [id |-> id, date |-> table[id].date, time |-> table[id].time,
     title |-> table[id].title,
     time_display |-> FormatTimeForDisplay(table[id].time),
     is_loan |-> FALSE]

\* get_reminders_for_date: what a call can return. No connection, or a
\* database error, gives the empty list.
GetRemindersForDate(table, date_str) ==
    {[k \in 1..Len(f) |-> ReminderItem(table, f[k])] : f \in SelectForDate(table, date_str)}
        \cup {<<>>}

\* ---------------------------------------------------------- loans service
LoanSamples == {<<"T", " ", "-", " ", "R", " ", "(", "0", "d", ")">>, <<"x">>}

RECURSIVE ListsOfLen(_, _)
ListsOfLen(S, n) ==
    IF n = 0 THEN {<<>>}
    ELSE {Append(l, x) : l \in ListsOfLen(S, n - 1), x \in S}

LoanLists == UNION {ListsOfLen(LoanSamples, n) : n \in 0..MaxLoans}

\* What the GET of line 197 can come to.
FailureKinds == {"no_field", "http_error", "timeout", "connection_error",
                 "malformed_json", "non_object", "field_null"}
LoansResponses ==
    {[kind |-> "ok", active_loans |-> l] : l \in LoanLists}
        \cup {[kind |-> k, active_loans |-> <<>>] : k \in FailureKinds}

\* get_active_loans. requests raises a RequestException for a timeout, a
\* connection failure and (raise_for_status) a non-2xx status; response.json()
\* raises a ValueError for a malformed body: the handler of line 206 catches
\* these. A body that is JSON but no object has no .get (AttributeError, line
\* 201), and len() of a null active_loans is a TypeError (line 203): neither
\* is caught.
GetActiveLoans(response) ==
    CASE response.kind = "ok" -> [raised |-> FALSE, value |-> response.active_loans]
      [] response.kind = "no_field" -> [raised |-> FALSE, value |-> <<>>]
      [] response.kind \in {"http_error", "timeout", "connection_error",
                            "malformed_json"} -> [raised |-> FALSE, value |-> <<>>]
      [] response.kind \in {"non_object", "field_null"} ->
            [raised |-> TRUE, value |-> <<>>]

\* ------------------------------------------------- format_loans_for_display
LoanLabel == <<"L", "O", "A", "N">>

\* The id of line 262, f'loan_{len(formatted_loans)}': the prefix and the number.
LoanId_Constant(n) == <<"loan_", 0>>
LoanId(n) == <<"loan_", n>>

\* Lines 259-275: the display item of one loan string, `n` items being
\* formatted already and `now` being what datetime.now() returns.
LoanItem(loan, n, now) ==
    LET parsed == ParseLoanString(loan)
    IN [id |-> LoanId(n),
        title |-> loan,
        time |-> NULL,
        time_display |-> LoanLabel,
        date |-> now,
        date_display |-> "Today",
        is_loan |-> TRUE,
        student |-> parsed.student,
        item |-> parsed.item,
        days |-> parsed.days,
        original |-> loan]

\* ------------------------------------------------------------- tv_display
EnvIdle == clock = 0 /\ ticks = 0 /\ db = <<>>

DisplayCapacity == 7

TvIdle ==
    /\ today = 0 /\ nwd_today = 0 /\ next_working_day = 0
    /\ name_today = 0 /\ next_day_name = ""
    /\ tv_today_reminders = <<>> /\ next_day_reminders = <<>>
    /\ loans_response = None /\ active_loans_raw = <<>>
    /\ formatted_loans = <<>> /\ active_loans_formatted = <<>>

\* Line 524: today = datetime.now()
TvStart ==
    /\ tv_pc = "start"
    /\ today' = clock
    /\ tv_pc' = "nwd"
    /\ UNCHANGED <<nwd_today, next_working_day, name_today, next_day_name,
                   tv_today_reminders, next_day_reminders, loans_response,
                   active_loans_raw, formatted_loans, active_loans_formatted>>
    /\ UNCHANGED <<pagVars, parseVars, envVars, orgVars, mgVars, wkVars>>

\* Line 525: get_next_working_day() reads the clock itself.
TvNextWorkingDay ==
    /\ tv_pc = "nwd"
    /\ nwd_today' = clock
    /\ next_working_day' = GetNextWorkingDay(clock)
    /\ tv_pc' = "name"
    /\ UNCHANGED <<today, name_today, next_day_name,
                   tv_today_reminders, next_day_reminders, loans_response,
                   active_loans_raw, formatted_loans, active_loans_formatted>>
    /\ UNCHANGED <<pagVars, parseVars, envVars, orgVars, mgVars, wkVars>>

\* Line 526: get_next_working_day_name() reads the clock itself.
TvNextDayName ==
    /\ tv_pc = "name"
    /\ name_today' = clock
    /\ next_day_name' = GetNextWorkingDayName(clock)
    /\ tv_pc' = "fetch"
    /\ UNCHANGED <<today, nwd_today, next_working_day,
                   tv_today_reminders, next_day_reminders, loans_response,
                   active_loans_raw, formatted_loans, active_loans_formatted>>
    /\ UNCHANGED <<pagVars, parseVars, envVars, orgVars, mgVars, wkVars>>

\* Lines 528-536: the two reminder fetches and the loans fetch. An exception
\* get_active_loans lets through ends the request (HTTP 500).
TvFetch ==
    /\ tv_pc = "fetch"
    /\ \E rt \in GetRemindersForDate(db, today),
          rn \in GetRemindersForDate(db, next_working_day),
          response \in LoansResponses :
          /\ tv_today_reminders' = rt
          /\ next_day_reminders' = rn
          /\ loans_response' = response
          /\ LET r == GetActiveLoans(response)
             IN IF r.raised
                THEN /\ tv_pc' = "raised"
                     /\ UNCHANGED active_loans_raw
                ELSE /\ tv_pc' = "format"
                     /\ active_loans_raw' = r.value
    /\ formatted_loans' = <<>>
    /\ UNCHANGED <<today, nwd_today, next_working_day, name_today, next_day_name,
                   active_loans_formatted>>
    /\ UNCHANGED <<pagVars, parseVars, envVars, orgVars, mgVars, wkVars>>

\* Lines 258-276: one turn of the loop of format_loans_for_display.
TvFormatLoan ==
    /\ tv_pc = "format"
    /\ Len(formatted_loans) < Len(active_loans_raw)
    /\ LET loan == active_loans_raw[Len(formatted_loans) + 1]
       IN formatted_loans' =
              Append(formatted_loans, LoanItem(loan, Len(formatted_loans), clock))
    /\ UNCHANGED <<today, nwd_today, next_working_day, name_today, next_day_name,
                   tv_today_reminders, next_day_reminders, loans_response,
                   active_loans_raw, active_loans_formatted, tv_pc>>
    /\ UNCHANGED <<pagVars, parseVars, envVars, orgVars, mgVars, wkVars>>

\* Lines 278 and 537-545: the formatted list is returned and the paginator
\* is called with the capacity of line 544.
TvPaginate ==
    /\ tv_pc = "format"
    /\ Len(formatted_loans) = Len(active_loans_raw)
    /\ active_loans_formatted' = formatted_loans
    /\ PagCall(tv_today_reminders, next_day_reminders, formatted_loans, DisplayCapacity)
    /\ tv_pc' = "paginate"
    /\ UNCHANGED <<today, nwd_today, next_working_day, name_today, next_day_name,
                   tv_today_reminders, next_day_reminders, loans_response,
                   active_loans_raw, formatted_loans>>
    /\ UNCHANGED <<parseVars, envVars, orgVars, mgVars, wkVars>>

\* calculate_pagination_info runs inside the request.
TvPagStep ==
    /\ tv_pc = "paginate"
    /\ PagStep
    /\ UNCHANGED <<tvVars, parseVars, envVars, orgVars, mgVars, wkVars>>

\* Lines 564-568: the template is rendered with pagination_info.
TvRender ==
    /\ tv_pc = "paginate"
    /\ pag_pc = "done"
    /\ tv_pc' = "done"
    /\ UNCHANGED <<today, nwd_today, next_working_day, name_today, next_day_name,
                   tv_today_reminders, next_day_reminders, loans_response,
                   active_loans_raw, formatted_loans, active_loans_formatted>>
    /\ UNCHANGED <<pagVars, parseVars, envVars, orgVars, mgVars, wkVars>>

\* Midnight passes between two reads of the clock.
TvTick ==
    /\ ticks < MaxTicks
    /\ \/ tv_pc \in {"nwd", "name"}
       \/ tv_pc = "format" /\ Len(formatted_loans) < Len(active_loans_raw)
    /\ clock' = clock + 1
    /\ ticks' = ticks + 1
    /\ UNCHANGED <<db, pagVars, parseVars, tvVars, orgVars, mgVars, wkVars>>

\* ---------------------------------------------- get_all_reminders_organized
\* The query of lines 419-423: every row, ORDER BY date DESC and then the
\* time key; rows equal in both come in either order.
SelectAll(table) ==
    {f \in Listings(DOMAIN table) :
        \A i, j \in 1..Len(f) :
            i < j =>
                \/ table[f[i]].date > table[f[j]].date
                \/ /\ table[f[i]].date = table[f[j]].date
                   /\ StrLeq(SqlTimeKey(table[f[i]].time), SqlTimeKey(table[f[j]].time))}

DayNames == <<"Mon", "Tue", "Wed", "Thu", "Fri", "Sat", "Sun">>

\* Line 435, strftime('%a, %b %d'): the day's name and the day.
DateDisplay(date) == <<DayNames[Weekday(date) + 1], date>>

\* Line 438: is_monday(reminder['date']) and is_today_friday()
IsMondayNextWorkingDay(date, now) == IsMonday(date) /\ IsTodayFriday(now)

\* Lines 430-439: a fetched row as a dict with its display fields, `now`
\* being what is_today_friday reads.
OrganizedItem(table, id, now) ==
    [id |-> id, date |-> table[id].date, time |-> table[id].time,
     title |-> table[id].title,
     time_display |-> FormatTimeForDisplay(table[id].time),
     date_display |-> DateDisplay(table[id].date),
     is_weekend |-> IsWeekend(table[id].date),
     is_monday_next_working_day |-> IsMondayNextWorkingDay(table[id].date, now),
     is_loan |-> FALSE]

\* Line 441: reminder_date >= today
IsCurrent_Strict(reminder_date, today_date) == reminder_date > today_date
IsCurrent(reminder_date, today_date) == reminder_date >= today_date

\* get_sort_key: (date, time or the sentinel)
GetSortKey(reminder) ==
    <<reminder.date, IF reminder.time = NULL THEN Sentinel ELSE reminder.time>>

\* Python's tuple comparison of two sort keys.
KeyLess(k1, k2) == k1[1] < k2[1] \/ (k1[1] = k2[1] /\ StrLess(k1[2], k2[2]))

InsertAt(s, i, x) == SubSeq(s, 1, i - 1) \o <<x>> \o SubSeq(s, i, Len(s))

\* list.sort(key=get_sort_key): stable, ascending.
RECURSIVE SortAscending(_)
SortAscending(s) ==
    IF s = <<>> THEN <<>>
    ELSE LET x == s[Len(s)]
             front == SortAscending(SubSeq(s, 1, Len(s) - 1))
             after == {i \in 1..Len(front) : KeyLess(GetSortKey(x), GetSortKey(front[i]))}
             at == IF after = {} THEN Len(front) + 1
                   ELSE CHOOSE i \in after : \A j \in after : i <= j
         IN InsertAt(front, at, x)

\* list.sort(key=get_sort_key, reverse=True): stable, descending.
RECURSIVE SortDescending(_)
SortDescending(s) ==
    IF s = <<>> THEN <<>>
    ELSE LET x == s[Len(s)]
             front == SortDescending(SubSeq(s, 1, Len(s) - 1))
             after == {i \in 1..Len(front) : KeyLess(GetSortKey(front[i]), GetSortKey(x))}
             at == IF after = {} THEN Len(front) + 1
                   ELSE CHOOSE i \in after : \A j \in after : i <= j
         IN InsertAt(front, at, x)

OrgIdle ==
    /\ org_today = 0 /\ org_rows = <<>> /\ org_read = FALSE
    /\ current_reminders = <<>> /\ old_reminders = <<>>
    /\ reminders_data = None

\* Lines 413-427: the connection, the query and the reading of today. No
\* connection, or a database error, returns the two empty lists.
OrgFetch ==
    /\ org_pc = "start"
    /\ \/ /\ org_read' = TRUE
          /\ \E f \in SelectAll(db) : org_rows' = f
          /\ org_today' = clock
          /\ org_pc' = "loop"
          /\ UNCHANGED reminders_data
       \/ /\ org_read' = FALSE
          /\ reminders_data' = [current_reminders |-> <<>>, old_reminders |-> <<>>]
          /\ org_pc' = "done"
          /\ UNCHANGED <<org_rows, org_today>>
    /\ current_reminders' = <<>> /\ old_reminders' = <<>>
    /\ UNCHANGED <<pagVars, parseVars, envVars, tvVars, mgVars, wkVars>>

OrgProcessed == Len(current_reminders) + Len(old_reminders)

\* Lines 429-444: one turn of the loop over the fetched rows.
OrgRow ==
    /\ org_pc = "loop"
    /\ OrgProcessed < Len(org_rows)
    /\ LET id == org_rows[OrgProcessed + 1]
           reminder == OrganizedItem(db, id, clock)
       IN IF IsCurrent(db[id].date, org_today)
          THEN /\ current_reminders' = Append(current_reminders, reminder)
               /\ UNCHANGED old_reminders
          ELSE /\ old_reminders' = Append(old_reminders, reminder)
               /\ UNCHANGED current_reminders
    /\ UNCHANGED <<org_today, org_rows, org_read, org_pc, reminders_data>>
    /\ UNCHANGED <<pagVars, parseVars, envVars, tvVars, mgVars, wkVars>>

\* Lines 446-452: the two sorts and the return.
OrgSort ==
    /\ org_pc = "loop"
    /\ OrgProcessed = Len(org_rows)
    /\ current_reminders' = SortAscending(current_reminders)
    /\ old_reminders' = SortDescending(old_reminders)
    /\ reminders_data' = [current_reminders |-> SortAscending(current_reminders),
                          old_reminders |-> SortDescending(old_reminders)]
    /\ org_pc' = "done"
    /\ UNCHANGED <<org_today, org_rows, org_read>>
    /\ UNCHANGED <<pagVars, parseVars, envVars, tvVars, mgVars, wkVars>>

\* Midnight passes before is_today_friday reads the clock for a Monday row.
OrgTick ==
    /\ ticks < MaxTicks
    /\ org_pc = "loop"
    /\ OrgProcessed < Len(org_rows)
    /\ IsMonday(db[org_rows[OrgProcessed + 1]].date)
    /\ clock' = clock + 1
    /\ ticks' = ticks + 1
    /\ UNCHANGED <<db, pagVars, parseVars, tvVars, orgVars, mgVars, wkVars>>

\* The rows a table may hold: a past Monday, a Thursday, a Friday and the
\* Monday after, each without a time, with a morning time or with the last
\* second of the day.
RowDates == {0, 3, 4, 7}
RowTimes == {NULL, TimeStr(9, 0, 0), TimeStr(23, 59, 59)}
Rows == {Row(d, t, "Reminder") : d \in RowDates, t \in RowTimes}
Tables == UNION {[1..n -> Rows] : n \in 0..MaxRows}

\* ------------------------------------------------------- manage_reminders
\* A form field that was not sent (request.form.get returns None, or the
\* default given).
Absent == "<absent>"

\* Python truthiness of a form field held as a string.
Truthy(v) == v # Absent /\ v # ""

\* The date field: not sent (or empty), text that is no '%Y-%m-%d' date, or a
\* date.
FormDate(kind, day) == [kind |-> kind, day |-> day]

\* Line 615: if not date
DateGiven(date) == date.kind \in {"malformed", "date"}

\* Line 619: if not title or not title.strip()
TitleGiven_NoStrip(title) == title # NULL /\ title # <<>>
TitleGiven(title) == title # NULL /\ title # <<>> /\ Strip(title) # <<>>

\* Line 623: is_weekend(date); text that is no date gives False (line 310).
FormIsWeekend_Never(date) == FALSE
FormIsWeekend(date) == date.kind = "date" /\ IsWeekend(date.day)

\* Line 630: reminder_date < today_date
InThePast_Never(reminder_date, today_date) == FALSE
InThePast(reminder_date, today_date) == reminder_date < today_date

\* Line 639, strptime(time_val, '%H:%M') on the zero-padded form.
ParseHourMinute(time_val) ==
    IF /\ Len(time_val) = 5
       /\ IsTwoDigits(time_val, 1) /\ time_val[3] = ":" /\ IsTwoDigits(time_val, 4)
       /\ TwoDigits(time_val, 1) <= 23 /\ TwoDigits(time_val, 4) <= 59
    THEN [ok |-> TRUE, hour |-> TwoDigits(time_val, 1), minute |-> TwoDigits(time_val, 4)]
    ELSE [ok |-> FALSE]

\* Line 637: if time_val
TimeGiven(time_val) == time_val # NULL /\ time_val # <<>>

\* Line 658: action == 'edit' and form_reminder_id
IsEditBranch(action, form_reminder_id) == action = "edit" /\ Truthy(form_reminder_id)

\* WHERE id = ? with a text parameter: the INTEGER column matches the text
\* of its number.
RowsWithId(table, id_text) == {i \in DOMAIN table : ToString(i) = id_text}

\* The table with row `id` set to `row` (an INSERT of a new id, or an UPDATE).
WithRow(table, id, row) ==
    [i \in DOMAIN table \cup {id} |-> IF i = id THEN row ELSE table[i]]

\* The table without row `id`.
WithoutRow(table, id) == [i \in DOMAIN table \ {id} |-> table[i]]

Redirect(flash) == [flash |-> flash, status |-> 302]
Unchanged(table, seq, flash) ==
    [db |-> table, last_id |-> seq, response |-> Redirect(flash)]

\* Lines 606-683: the POST branch of manage_reminders on `form`, `now` being
\* the date datetime.now() gives and `database` what the connection and the
\* statement come to ("ok", "no_connection", "error").
ManagePost(table, seq, now, form, database) ==
    LET action == IF form.action = Absent THEN "add" ELSE form.action
        form_reminder_id == form.reminder_id
        date == form.date
        title == form.title
    IN IF ~DateGiven(date) THEN Unchanged(table, seq, "Date is required!")
       ELSE IF ~TitleGiven(title) THEN Unchanged(table, seq, "Title is required!")
       ELSE IF FormIsWeekend(date)
       THEN Unchanged(table, seq,
                "Cannot schedule reminders on weekends! Please choose a weekday.")
       ELSE IF date.kind # "date" THEN Unchanged(table, seq, "Invalid date format!")
       ELSE IF InThePast(date.day, now)
       THEN Unchanged(table, seq, "Cannot schedule reminders in the past!")
       ELSE IF TimeGiven(form.time) /\ ~ParseHourMinute(form.time).ok
       THEN Unchanged(table, seq, "Invalid time format!")
       ELSE
         LET time_val == IF TimeGiven(form.time)
                         THEN TimeStr(ParseHourMinute(form.time).hour,
                                      ParseHourMinute(form.time).minute, 0)
                         ELSE NULL
             row == Row(date.day, time_val, Strip(title))
         IN IF database = "no_connection"
            THEN Unchanged(table, seq, "Database connection failed!")
            ELSE IF database = "error"
            THEN Unchanged(table, seq, "Database error")
            ELSE IF IsEditBranch(action, form_reminder_id)
            THEN LET hit == RowsWithId(table, form_reminder_id)
                 IN IF hit # {}
                    THEN [db |-> WithRow(table, CHOOSE i \in hit : TRUE, row),
                          last_id |-> seq,
                          response |-> Redirect("Reminder updated successfully!")]
                    ELSE Unchanged(table, seq, "Reminder not found!")
            ELSE [db |-> WithRow(table, seq + 1, row),
                  last_id |-> seq + 1,
                  response |-> Redirect("Reminder added successfully!")]

\* Lines 739-764: delete_reminder.
DeleteReminder(table, reminder_id, database) ==
    IF database = "no_connection"
    THEN [db |-> table, response |-> Redirect("Database connection failed")]
    ELSE IF database = "error"
    THEN [db |-> table, response |-> Redirect("Database error")]
    ELSE IF reminder_id \in DOMAIN table
    THEN [db |-> WithoutRow(table, reminder_id),
          response |-> Redirect("Reminder deleted successfully!")]
    ELSE [db |-> table, response |-> Redirect("Reminder not found!")]

\* Lines 709-736: get_reminder; the JSON body is the row, or an error.
GetReminder_AlwaysFound(table, reminder_id, database) ==
    [flash |-> "", status |-> 200, error |-> ""]
GetReminder(table, reminder_id, database) ==
    IF database = "no_connection"
    THEN [flash |-> "", status |-> 500, error |-> "Database connection failed"]
    ELSE IF database = "error"
    THEN [flash |-> "", status |-> 500, error |-> "Database error"]
    ELSE IF reminder_id \in DOMAIN table
    THEN [flash |-> "", status |-> 200, error |-> ""]
    ELSE [flash |-> "", status |-> 404, error |-> "Reminder not found"]

\* The forms tried: every action, ids sent and not, dates of each kind, times
\* and titles given, blank, malformed and well-formed.
FormActions == {Absent, "add", "edit"}
FormIds == {Absent, "", "1", "3"}
FormDates == {FormDate("absent", 0), FormDate("malformed", 0)}
                 \cup {FormDate("date", d) : d \in {4, 5, 7}}
FormTimes == {NULL, <<"0", "9", ":", "3", "0">>, <<"9", "h">>}
FormTitles == {NULL, <<" ">>, <<" ", "x">>}
Forms == [action : FormActions, reminder_id : FormIds, date : FormDates,
          time : FormTimes, title : FormTitles]
DatabaseOutcomes == {"ok", "no_connection", "error"}

MgIdle ==
    /\ last_id = 0 /\ requests = 0
    /\ mg_request = [kind |-> "none", action |-> Absent, reminder_id |-> Absent]
    /\ mg_response = [flash |-> "", status |-> 0]

\* POST /manage.
MgPost ==
    /\ requests < MaxRequests
    /\ \E form \in Forms, database \in DatabaseOutcomes :
          LET r == ManagePost(db, last_id, clock, form, database)
          IN /\ db' = r.db
             /\ last_id' = r.last_id
             /\ mg_response' = r.response
             /\ mg_request' = [kind |-> "post", action |-> form.action,
                               reminder_id |-> form.reminder_id]
    /\ requests' = requests + 1
    /\ UNCHANGED <<clock, ticks, pagVars, parseVars, tvVars, orgVars, wkVars>>

\* GET /delete/<int:reminder_id>.
MgDelete ==
    /\ requests < MaxRequests
    /\ \E reminder_id \in 1..3, database \in DatabaseOutcomes :
          LET r == DeleteReminder(db, reminder_id, database)
          IN /\ db' = r.db
             /\ mg_response' = r.response
             /\ mg_request' = [kind |-> "delete", action |-> Absent,
                               reminder_id |-> ToString(reminder_id)]
    /\ requests' = requests + 1
    /\ UNCHANGED <<last_id, clock, ticks, pagVars, parseVars, tvVars, orgVars, wkVars>>

\* GET /get_reminder/<int:reminder_id>.
MgLookup ==
    /\ requests < MaxRequests
    /\ \E reminder_id \in 1..3, database \in DatabaseOutcomes :
          LET r == GetReminder(db, reminder_id, database)
          IN /\ mg_response' = [flash |-> r.error, status |-> r.status]
             /\ mg_request' = [kind |-> "lookup", action |-> Absent,
                               reminder_id |-> ToString(reminder_id)]
    /\ requests' = requests + 1
    /\ UNCHANGED <<db, last_id, clock, ticks, pagVars, parseVars, tvVars, orgVars, wkVars>>

\* The tables the management requests start from: up to two rows written
\* earlier, one of them dated in the past of most start days.
OldTitle == <<"o", "l", "d">>
ManageRows == {Row(0, NULL, OldTitle), Row(4, TimeStr(9, 0, 0), OldTitle)}
ManageTables == UNION {[1..n -> ManageRows] : n \in 0..2}

\* ------------------------------------------------- get_week_type_from_api
\* A JSON value: null, a string (a sequence of characters) or a number.
JsonNull == [type |-> "null", s |-> <<>>, n |-> 0]
JsonStr(s) == [type |-> "str", s |-> s, n |-> 0]
JsonInt(n) == [type |-> "int", s |-> <<>>, n |-> n]

LowerCase == <<"a", "b", "c", "d", "e", "f", "g", "h", "i", "j", "k", "l", "m",
               "n", "o", "p", "q", "r", "s", "t", "u", "v", "w", "x", "y", "z">>
UpperCase == <<"A", "B", "C", "D", "E", "F", "G", "H", "I", "J", "K", "L", "M",
               "N", "O", "P", "Q", "R", "S", "T", "U", "V", "W", "X", "Y", "Z">>

\* str.upper()
UpperChar(c) ==
    IF \E i \in 1..Len(LowerCase) : LowerCase[i] = c
    THEN UpperCase[CHOOSE i \in 1..Len(LowerCase) : LowerCase[i] = c]
    ELSE c
Upper(s) == [i \in 1..Len(s) |-> UpperChar(s[i])]

\* str.startswith(prefix)
StartsWith(s, prefix) == Len(prefix) <= Len(s) /\ SubSeq(s, 1, Len(prefix)) = prefix

\* 'Week' and the f"Week {week_str}" of lines 126 and 128.
WeekWord == <<"W", "e", "e", "k">>
WeekOf(week_str) == WeekWord \o <<Space>> \o week_str

\* The default of lines 120 and 136.
WeekB == JsonStr(WeekOf(<<"B">>))

\* Python's truth value of a JSON value (line 123).
JsonTruthy(v) ==
    \/ v.type = "str" /\ v.s # <<>>
    \/ v.type = "int" /\ v.n # 0

\* str(week_type) for a string or a one-digit number.
PyStr(v) == IF v.type = "str" THEN v.s ELSE <<Digit(v.n)>>

\* The prefix test of line 127.
HasWeekPrefix(week_str) == StartsWith(week_str, WeekWord)

\* Lines 122-128: the normalisation of the value of 'week_type'.
NormalizeWeekType(value) ==
    IF JsonTruthy(value)
    THEN LET week_str == Upper(Strip(PyStr(value)))
         IN IF week_str \in {<<"A">>, <<"B">>} THEN JsonStr(WeekOf(week_str))
            ELSE IF ~HasWeekPrefix(week_str) THEN JsonStr(WeekOf(week_str))
            ELSE value
    ELSE value

\* What requests.get and response.json() come to: the request fails
\* (RequestException), the body is no JSON (ValueError), it is JSON but no
\* object, or it is an object with or without the key 'week_type'.
WeekResponse(kind, value) == [kind |-> kind, value |-> value]

\* Lines 110-136.
GetWeekTypeFromApi(response) ==
    IF response.kind \in {"failed", "not_json"} THEN [raised |-> FALSE, value |-> WeekB]
    ELSE IF response.kind = "not_object" THEN [raised |-> TRUE, value |-> JsonNull]
    ELSE IF response.kind = "no_key"
    THEN [raised |-> FALSE, value |-> NormalizeWeekType(JsonStr(<<"B">>))]
    ELSE [raised |-> FALSE, value |-> NormalizeWeekType(response.value)]

\* The values of 'week_type' tried: every string of up to MaxWeekLen of these
\* characters, the prefixed forms, null and two numbers.
WeekAlphabet == {"A", "b", " ", "W", "e", "k"}

RECURSIVE WeekStringsOfLen(_)
WeekStringsOfLen(n) ==
    IF n = 0 THEN {<<>>}
    ELSE {Append(s, c) : s \in WeekStringsOfLen(n - 1), c \in WeekAlphabet}

WeekStrings ==
    UNION {WeekStringsOfLen(n) : n \in 0..MaxWeekLen}
        \cup {WeekOf(<<"A">>), WeekOf(<<"B">>), Upper(WeekOf(<<"A">>)),
              <<"w", "e", "e", "k", " ", "b">>, WeekWord, <<" ", "a", " ">>}

WeekValues == {JsonStr(s) : s \in WeekStrings} \cup {JsonNull, JsonInt(0), JsonInt(7)}

WeekResponses ==
    {WeekResponse(k, JsonNull) : k \in {"failed", "not_json", "not_object", "no_key"}}
        \cup {WeekResponse("ok", v) : v \in WeekValues}

WkIdle ==
    /\ week_response = WeekResponse("none", JsonNull)
    /\ week_type = JsonNull /\ week_again = JsonNull
    /\ wk_pc = "idle"

\* One call of get_week_type_from_api.
WkFetch ==
    /\ wk_pc = "idle"
    /\ \E response \in WeekResponses :
          /\ week_response' = response
          /\ LET r == GetWeekTypeFromApi(response)
             IN /\ week_type' = r.value
                /\ wk_pc' = IF r.raised THEN "raised" ELSE "returned"
    /\ UNCHANGED week_again
    /\ UNCHANGED <<pagVars, parseVars, envVars, tvVars, orgVars, mgVars>>

\* The service answers a second call with what the first call returned.
WkAgain ==
    /\ wk_pc = "returned"
    /\ week_again' = GetWeekTypeFromApi(WeekResponse("ok", week_type)).value
    /\ wk_pc' = "again"
    /\ UNCHANGED <<week_response, week_type>>
    /\ UNCHANGED <<pagVars, parseVars, envVars, tvVars, orgVars, mgVars>>

\* ---------------------------------------------------------- specifications
\* The paginator called on every input up to the bounds.
InitPag ==
    /\ ParseIdle /\ EnvIdle /\ TvIdle /\ tv_pc = "idle" /\ OrgIdle /\ org_pc = "idle" /\ MgIdle /\ WkIdle
    /\ \E t \in 0..MaxToday, l \in 0..MaxPagLoans, u \in 0..MaxTomorrow, c \in Caps :
          /\ today_reminders = ItemList("reminder", t)
          /\ active_loans = ItemList("loan", l)
          /\ tomorrow_reminders = ItemList("next", u)
          /\ max_per_screen = c
    /\ today_items = <<>> /\ remaining_today = <<>> /\ remaining_tomorrow = <<>>
    /\ screens = <<>> /\ screen_today = <<>> /\ screen_tomorrow = <<>>
    /\ screen_count = 0
    /\ pag_pc = "start" /\ pag_result = None

NextPag == PagStep /\ UNCHANGED <<parseVars, envVars, tvVars, orgVars, mgVars, wkVars>>

SpecPag == InitPag /\ [][NextPag]_vars

\* The parser called on every string up to the bound.
InitParse ==
    /\ PagIdle /\ EnvIdle /\ TvIdle /\ tv_pc = "idle" /\ OrgIdle /\ org_pc = "idle" /\ MgIdle /\ WkIdle
    /\ loan_string \in Strings
    /\ parse_pc = "start"
    /\ parsed_loan = None

NextParse == ParseCall /\ UNCHANGED <<pagVars, envVars, tvVars, orgVars, mgVars, wkVars>>

SpecParse == InitParse /\ [][NextParse]_vars

\* A display request on a table seeded on day 0, starting on any day of the
\* first week.
InitDisplay ==
    /\ PagIdle /\ ParseIdle /\ TvIdle /\ OrgIdle /\ org_pc = "idle" /\ MgIdle /\ WkIdle
    /\ clock \in 0..MaxStartDay
    /\ ticks = 0
    /\ db = SeedTable(0)
    /\ tv_pc = "start"

NextDisplay ==
    \/ TvStart
    \/ TvNextWorkingDay
    \/ TvNextDayName
    \/ TvFetch
    \/ TvFormatLoan
    \/ TvPaginate
    \/ TvPagStep
    \/ TvRender
    \/ TvTick

SpecDisplay == InitDisplay /\ [][NextDisplay]_vars

\* get_all_reminders_organized called on every small table, on any day of the
\* first week.
InitOrganize ==
    /\ PagIdle /\ ParseIdle /\ TvIdle /\ tv_pc = "idle" /\ OrgIdle /\ MgIdle /\ WkIdle
    /\ clock \in 0..MaxStartDay
    /\ ticks = 0
    /\ db \in Tables
    /\ org_pc = "start"

NextOrganize ==
    \/ OrgFetch
    \/ OrgRow
    \/ OrgSort
    \/ OrgTick

SpecOrganize == InitOrganize /\ [][NextOrganize]_vars

\* Management requests on a small table, on any day of the first week.
InitManage ==
    /\ PagIdle /\ ParseIdle /\ TvIdle /\ tv_pc = "idle" /\ OrgIdle /\ org_pc = "idle"
    /\ clock \in 0..MaxStartDay
    /\ ticks = 0
    /\ db \in ManageTables
    /\ last_id = Len(db)
    /\ requests = 0
    /\ mg_request = [kind |-> "none", action |-> Absent, reminder_id |-> Absent]
    /\ mg_response = [flash |-> "", status |-> 0]
    /\ WkIdle

NextManage ==
    \/ MgPost
    \/ MgDelete
    \/ MgLookup

SpecManage == InitManage /\ [][NextManage]_vars

\* Calls of get_week_type_from_api on every answer of the schedule service.
InitWeek ==
    /\ PagIdle /\ ParseIdle /\ EnvIdle /\ TvIdle /\ tv_pc = "idle"
    /\ OrgIdle /\ org_pc = "idle" /\ MgIdle
    /\ WkIdle

NextWeek ==
    \/ WkFetch
    \/ WkAgain

SpecWeek == InitWeek /\ [][NextWeek]_vars

\* ------------------------------------------------------ paginator claims
PagDone == pag_pc = "done"
PagTotal == Len(today_reminders) + Len(active_loans) + Len(tomorrow_reminders)

\* C1: the returned screens cover the input exactly: the screens' today
\* lists concatenate to today's reminders followed by the loans, the
\* screens' tomorrow lists concatenate to the tomorrow list, every item
\* is on exactly one screen, and no screen holds more than the capacity.
C1_Coverage ==
    PagDone =>
        LET ss == pag_result.screens
            allToday == ConcatAll(ScreenToday(ss))
            allTomorrow == ConcatAll(ScreenTomorrow(ss))
        IN /\ allToday = today_reminders \o active_loans
           /\ allTomorrow = tomorrow_reminders
           /\ Len(allToday) + Len(allTomorrow) = PagTotal
           /\ \A i \in 1..Len(ss) :
                 Len(ss[i].today_reminders) + Len(ss[i].tomorrow_reminders)
                     <= max_per_screen

C1_Witness ==
    /\ PagDone
    /\ Len(pag_result.screens) >= 3
    /\ active_loans # <<>> /\ today_reminders # <<>> /\ tomorrow_reminders # <<>>
    /\ \E i \in 1..Len(pag_result.screens) :
          /\ pag_result.screens[i].today_reminders # <<>>
          /\ pag_result.screens[i].tomorrow_reminders # <<>>

\* C2: needs_pagination is false exactly when T + U <= C; then there is one
\* screen holding everything and total_screens = 1; total_screens is always
\* the number of screens returned.
C2_NeedsPagination ==
    PagDone =>
        /\ (pag_result.needs_pagination = FALSE) <=> (PagTotal <= max_per_screen)
        /\ pag_result.needs_pagination = FALSE =>
              /\ pag_result.total_screens = 1
              /\ pag_result.screens =
                    <<[today_reminders |-> today_reminders \o active_loans,
                       tomorrow_reminders |-> tomorrow_reminders]>>
        /\ pag_result.total_screens = Len(pag_result.screens)

C2_Witness ==
    /\ PagDone
    /\ pag_result.needs_pagination = FALSE
    /\ PagTotal = max_per_screen
    /\ today_reminders # <<>> /\ active_loans # <<>> /\ tomorrow_reminders # <<>>

Min(a, b) == IF a <= b THEN a ELSE b

\* The number of today items (tomorrow items) on the first k screens.
TodayOn(ss, k) == Len(ConcatAll(ScreenToday(SubSeq(ss, 1, k))))
TomorrowOn(ss, k) == Len(ConcatAll(ScreenTomorrow(SubSeq(ss, 1, k))))

\* C13: when T + U > C, screen k holds the next min(C, today items left)
\* items of the today queue, then the next min(C - that, tomorrow items left)
\* items of the tomorrow queue; it holds a tomorrow item only if the today
\* queue is empty after its today part; every screen but the last holds
\* exactly C items.
C13_GreedyFill ==
    PagDone /\ PagTotal > max_per_screen =>
        LET ss == pag_result.screens
            queue == today_reminders \o active_loans
            T == Len(queue)
            U == Len(tomorrow_reminders)
            C == max_per_screen
        IN \A k \in 1..Len(ss) :
              LET t0 == TodayOn(ss, k - 1)
                  u0 == TomorrowOn(ss, k - 1)
                  t == Min(C, T - t0)
                  u == Min(C - t, U - u0)
              IN /\ ss[k].today_reminders = SubSeq(queue, t0 + 1, t0 + t)
                 /\ ss[k].tomorrow_reminders = SubSeq(tomorrow_reminders, u0 + 1, u0 + u)
                 /\ ss[k].tomorrow_reminders # <<>> => t0 + t = T
                 /\ k < Len(ss) => t + u = C

\* The two examples: T=7 (5 reminders, 2 loans), U=3, C=7 gives (7, 0) and
\* (0, 3); T=5, U=5, C=7 gives (5, 2) and (0, 3).
ScreenSizes ==
    [k \in 1..Len(pag_result.screens) |->
        <<Len(pag_result.screens[k].today_reminders),
          Len(pag_result.screens[k].tomorrow_reminders)>>]

C13_Boundary ==
    /\ PagDone /\ max_per_screen = 7
    /\ Len(today_reminders) = 5 /\ Len(active_loans) = 2 /\ Len(tomorrow_reminders) = 3
    /\ ScreenSizes = << <<7, 0>>, <<0, 3>> >>

C13_Witness ==
    /\ PagDone /\ max_per_screen = 7
    /\ Len(today_reminders) + Len(active_loans) = 5 /\ Len(tomorrow_reminders) = 5
    /\ ScreenSizes = << <<5, 2>>, <<0, 3>> >>

\* C14: the screen-building loop ends: every pass of the outer loop takes at
\* least one item off a queue, so the screens built never outnumber the items
\* and the loop returns once both queues are empty.
C14_LoopProgress ==
    /\ pag_pc = "append" => screen_count >= 1
    /\ Len(screens) <= PagTotal

\* ------------------------------------------------------- parser claims
ParseDone == parse_pc = "done"

\* The text the claims speak of, stated on the string itself.
LastOpen(s) == CHOOSE i \in 0..Len(s) :
                  /\ i # 0 => s[i] = "("
                  /\ \A j \in (i + 1)..Len(s) : s[j] # "("
HasDays(s) == LastOpen(s) # 0 /\ \E j \in (LastOpen(s) + 1)..Len(s) : s[j] = ")"
Trimmed(s) ==
    IF \A i \in 1..Len(s) : s[i] = Space THEN <<>>
    ELSE LET lo == CHOOSE i \in 1..Len(s) :
                      s[i] # Space /\ \A j \in 1..(i - 1) : s[j] = Space
             hi == CHOOSE i \in 1..Len(s) :
                      s[i] # Space /\ \A j \in (i + 1)..Len(s) : s[j] = Space
         IN SubSeq(s, lo, hi)
Remainder(s) ==
    IF HasDays(s) THEN Trimmed(SubSeq(s, 1, LastOpen(s) - 1)) ELSE Trimmed(s)
DaysAsClaimed(s, days) ==
    IF HasDays(s)
    THEN \E j \in (LastOpen(s) + 1)..Len(s) :
            s[j] = ")" /\ days = SubSeq(s, LastOpen(s) + 1, j - 1)
    ELSE days = <<>>
HasSeparator(r) == \E i \in 1..Len(r) : OccursAt(r, Separator, i)
FirstSeparator(r) ==
    CHOOSE i \in 1..Len(r) :
        OccursAt(r, Separator, i) /\ \A j \in 1..(i - 1) : ~OccursAt(r, Separator, j)
LeftSide(r) == SubSeq(r, 1, FirstSeparator(r) - 1)
RightSide(r) == SubSeq(r, FirstSeparator(r) + Len(Separator), Len(r))

\* C6 as stated: days is the text between the last "(" and a ")" after it,
\* the remainder is the trimmed prefix, the student is the left side of the
\* first " - " of the remainder as it stands and the item the (trimmed)
\* right side; without the separator the student is the remainder, or
\* "Unknown" when it is empty, and the item is "Unknown".
C6_AsStated ==
    ParseDone =>
        LET r == Remainder(loan_string)
        IN /\ DaysAsClaimed(loan_string, parsed_loan.days)
           /\ IF HasSeparator(r)
              THEN /\ parsed_loan.student = LeftSide(r)
                   /\ parsed_loan.item = Trimmed(RightSide(r))
              ELSE /\ parsed_loan.student = (IF r = <<>> THEN Unknown ELSE r)
                   /\ parsed_loan.item = Unknown

\* C6 amended: as C6, with the student being the left side of the first
\* " - " with its surrounding whitespace removed; the empty string yields
\* Unknown / Unknown / "".
C6_ParseLoan ==
    ParseDone =>
        LET r == Remainder(loan_string)
        IN /\ DOMAIN parsed_loan = {"student", "item", "days"}
           /\ DaysAsClaimed(loan_string, parsed_loan.days)
           /\ IF HasSeparator(r)
              THEN /\ parsed_loan.student = Trimmed(LeftSide(r))
                   /\ parsed_loan.item = Trimmed(RightSide(r))
              ELSE /\ parsed_loan.student = (IF r = <<>> THEN Unknown ELSE r)
                   /\ parsed_loan.item = Unknown
           /\ loan_string = <<>> =>
                 parsed_loan = [student |-> Unknown, item |-> Unknown, days |-> <<>>]

\* A string whose student side ends in whitespace has been parsed, and so
\* has one with a days part.
C6_Witness ==
    /\ ParseDone
    /\ \/ /\ loan_string = <<"a", " ", " ", "-", " ", "a">>
          /\ parsed_loan = [student |-> <<"a">>, item |-> <<"a">>, days |-> <<>>]
       \/ /\ loan_string = <<"a", " ", "(", "a", ")", ")">>
          /\ parsed_loan = [student |-> <<"a">>, item |-> Unknown, days |-> <<"a", ")">>]

\* ------------------------------------------------- working-day claims
NwdReturned == tv_pc \in {"name", "fetch", "format", "paginate", "done", "raised"}
NameReturned == tv_pc \in {"fetch", "format", "paginate", "done", "raised"}

\* C3: from Monday to Thursday the next working day is today + 1 and the
\* label is "Tomorrow"; on a Friday it is today + 3 and the label "Monday"
\* (today being the date each function read).
C3_NextWorkingDay ==
    /\ NwdReturned =>
          /\ Weekday(nwd_today) \in 0..3 => next_working_day = nwd_today + 1
          /\ Weekday(nwd_today) = 4 =>
                next_working_day = nwd_today + 3 /\ Weekday(next_working_day) = 0
    /\ NameReturned =>
          /\ Weekday(name_today) \in 0..3 => next_day_name = "Tomorrow"
          /\ Weekday(name_today) = 4 => next_day_name = "Monday"

\* Both functions have returned on a Friday.
C3_Witness ==
    /\ NameReturned
    /\ Weekday(nwd_today) = 4 /\ Weekday(name_today) = 4
    /\ next_working_day = nwd_today + 3 /\ next_day_name = "Monday"

\* C4: whatever the day of the week of today, the date get_next_working_day
\* returns is a Monday to Friday.
C4_NeverWeekend == NwdReturned => Weekday(next_working_day) \in 0..4

\* ------------------------------------------------------- loan claims
LoansFormatted == tv_pc \in {"paginate", "done"}

\* C7: the formatted list has the length and order of the loan list; item i
\* is a loan labelled "LOAN" / "Today" whose title and original are the i-th
\* string verbatim and whose student, item and days are its parse; no two
\* items of the batch share an id.
C7_FormatLoans ==
    LoansFormatted =>
        /\ Len(active_loans_formatted) = Len(active_loans_raw)
        /\ \A i \in 1..Len(active_loans_formatted) :
              LET it == active_loans_formatted[i]
                  p == ParseLoanString(active_loans_raw[i])
              IN /\ it.is_loan = TRUE
                 /\ it.time_display = <<"L", "O", "A", "N">>
                 /\ it.date_display = "Today"
                 /\ it.title = active_loans_raw[i]
                 /\ it.original = active_loans_raw[i]
                 /\ it.student = p.student /\ it.item = p.item /\ it.days = p.days
        /\ \A i, j \in 1..Len(active_loans_formatted) :
              i # j => active_loans_formatted[i].id # active_loans_formatted[j].id

\* A batch holding the same loan string twice has been formatted.
C7_Witness ==
    /\ LoansFormatted
    /\ \E i, j \in 1..Len(active_loans_raw) :
          /\ i < j /\ active_loans_raw[i] = active_loans_raw[j]
          /\ active_loans_formatted[i].student = <<"T">>
          /\ active_loans_formatted[j].days = <<"0", "d">>
    /\ \E i \in 1..Len(active_loans_raw) : active_loans_formatted[i].student = <<"x">>

\* C10: whatever the loans call comes to, get_active_loans returns a list
\* without raising, the empty list when the call failed, and the display
\* request completes.
C10_LoansNeverRaise ==
    /\ tv_pc # "raised"
    /\ tv_pc \in {"format", "paginate", "done"} /\ loans_response.kind # "ok" =>
          active_loans_raw = <<>>

\* ------------------------------------------------------ organiser claims
Organized == org_pc = "done" /\ org_read
InList(id, list) == \E i \in 1..Len(list) : list[i].id = id
Occurrences(id, list) == Cardinality({i \in 1..Len(list) : list[i].id = id})

\* C5: a row's is_monday_next_working_day is true only when today is a
\* Friday and the row is dated the coming Monday, today + 3.
C5_ComingMondayOnly ==
    Organized =>
        \A list \in {reminders_data.current_reminders, reminders_data.old_reminders} :
            \A i \in 1..Len(list) :
                list[i].is_monday_next_working_day =>
                    Weekday(org_today) = 4 /\ list[i].date = org_today + 3

\* C8: every row is in exactly one of the two lists, in current_reminders
\* exactly when its date is today or later and in old_reminders exactly when
\* it is before today (the table having been read).
C8_Partition ==
    Organized =>
        \A id \in DOMAIN db :
            /\ Occurrences(id, reminders_data.current_reminders)
                  + Occurrences(id, reminders_data.old_reminders) = 1
            /\ InList(id, reminders_data.current_reminders) <=> db[id].date >= org_today
            /\ InList(id, reminders_data.old_reminders) <=> db[id].date < org_today

\* A row dated today is current and a row dated yesterday is old.
C8_Witness ==
    /\ Organized
    /\ \E i \in 1..Len(reminders_data.current_reminders) :
          reminders_data.current_reminders[i].date = org_today
    /\ \E i \in 1..Len(reminders_data.old_reminders) :
          reminders_data.old_reminders[i].date = org_today - 1

TimeKey(reminder) == IF reminder.time = NULL THEN Sentinel ELSE reminder.time
KeyBefore(a, b) ==
    a.date < b.date \/ (a.date = b.date /\ StrLess(TimeKey(a), TimeKey(b)))

\* C9: current_reminders ascends and old_reminders descends by (date, time
\* or sentinel), and within one date of current_reminders every row without
\* a time comes after every row that has one.
C9_NullTimeLast ==
    Organized =>
        LET cur == reminders_data.current_reminders
            old == reminders_data.old_reminders
        IN /\ \A i, j \in 1..Len(cur) : i < j => ~KeyBefore(cur[j], cur[i])
           /\ \A i, j \in 1..Len(old) : i < j => ~KeyBefore(old[i], old[j])
           /\ \A i, j \in 1..Len(cur) :
                 cur[i].date = cur[j].date /\ cur[i].time = NULL /\ cur[j].time # NULL
                     => j < i

\* ----------------------------------------------------- management claims
\* The step handles a request of this kind.
Handles(kind) == requests' = requests + 1 /\ mg_request'.kind = kind

\* The rows a step wrote: those that are new, and those whose content changed.
Written == {i \in DOMAIN db' : i \notin DOMAIN db \/ db'[i] # db[i]}

ValidationMessages ==
    {"Date is required!", "Title is required!",
     "Cannot schedule reminders on weekends! Please choose a weekday.",
     "Cannot schedule reminders in the past!", "Invalid date format!",
     "Invalid time format!"}
DatabaseMessages ==
    {"Database connection failed!", "Database connection failed", "Database error"}
SuccessMessages ==
    {"Reminder added successfully!", "Reminder updated successfully!",
     "Reminder deleted successfully!"}

\* C11: a POST answered with a validation message leaves the table as it
\* was, and every row a POST inserts or updates has a title that is not
\* empty and has no surrounding whitespace, and a date that is a Monday to
\* Friday and not before the day of the request.
C11_ValidatedWrites ==
    [][Handles("post") =>
          /\ mg_response'.flash \in ValidationMessages => db' = db
          /\ \A i \in Written :
                /\ db'[i].title # <<>>
                /\ db'[i].title[1] # Space
                /\ db'[i].title[Len(db'[i].title)] # Space
                /\ db'[i].date % 7 \notin {5, 6}
                /\ db'[i].date >= clock]_vars

\* On a Saturday a POST for the Friday before was refused as past, and the
\* table still holds what it held.
C11_Witness ==
    /\ mg_request.kind = "post"
    /\ mg_response.flash = "Cannot schedule reminders in the past!"
    /\ clock = 5
    /\ db = <<Row(0, NULL, OldTitle)>>

\* The request names an id (as text) that no row of the table has.
NamesMissingId(request) ==
    /\ Truthy(request.reminder_id)
    /\ \A i \in DOMAIN db : ToString(i) # request.reminder_id

IsEditPost == Handles("post") /\ mg_request'.action = "edit"

\* C12 as stated: an edit POST, a delete or a lookup naming an id the table
\* does not hold leaves the table as it was and answers 'Reminder not found!'
\* (edit, delete) or 404 with an error body (lookup).
C12_AsStated ==
    [][/\ (IsEditPost \/ Handles("delete")) /\ NamesMissingId(mg_request')
            => db' = db /\ mg_response'.flash = "Reminder not found!"
       /\ Handles("lookup") /\ NamesMissingId(mg_request')
            => db' = db /\ mg_response'.status = 404
                        /\ mg_response'.flash = "Reminder not found"]_vars

\* C12: such a request leaves the table as it was and never answers with a
\* success; it answers 'Reminder not found!' (edit, delete) or 404 with the
\* error body (lookup) unless it was refused earlier, by the form validation
\* or by a database failure.
C12_NotFound ==
    [][/\ (IsEditPost \/ Handles("delete")) /\ NamesMissingId(mg_request')
            => /\ db' = db
               /\ mg_response'.flash \notin SuccessMessages
               /\ mg_response'.flash \notin ValidationMessages \cup DatabaseMessages
                     => mg_response'.flash = "Reminder not found!"
       /\ Handles("lookup") /\ NamesMissingId(mg_request')
            => /\ db' = db
               /\ mg_response'.status \in {404, 500}
               /\ mg_response'.flash \notin DatabaseMessages
                     => /\ mg_response'.status = 404
                        /\ mg_response'.flash = "Reminder not found"]_vars

\* Row 3 of a two-row table was looked up and the answer was 404.
C12_Witness ==
    /\ mg_request.kind = "lookup"
    /\ mg_request.reminder_id = "3"
    /\ Len(db) = 2
    /\ mg_response.status = 404

\* C16: a POST whose action is 'edit' leaves the set of rows as it was and
\* changes at most the row whose id it names, and only a POST whose action is
\* 'add' (sent, or taken by default) creates a row.
C16_EditNeverAdds ==
    [][/\ IsEditPost
            => /\ DOMAIN db' = DOMAIN db
               /\ \A i \in Written : ToString(i) = mg_request'.reminder_id
       /\ Handles("post") /\ DOMAIN db' # DOMAIN db
            => mg_request'.action \in {"add", Absent}]_vars

\* ------------------------------------------------------ display claims
\* C15: in one display request every value taken from the clock agrees with
\* the one today whose reminders are fetched: the next working day is
\* today + 1 exactly when the label is "Tomorrow" and today + 3 exactly when
\* it is "Monday", and every loan item is dated today.
C15_OneToday ==
    /\ NameReturned =>
          /\ next_working_day = today + 1 <=> next_day_name = "Tomorrow"
          /\ next_working_day = today + 3 <=> next_day_name = "Monday"
    /\ tv_pc \in {"format", "paginate", "done"} =>
          \A i \in 1..Len(formatted_loans) : formatted_loans[i].date = today

\* ------------------------------------------------------ week-type claims
BareLetters == {<<"A">>, <<"a">>, <<"B">>, <<"b">>}

\* C17: a bare A or B, in either case and with spaces around it, becomes
\* "Week A" / "Week B"; "Week A" and "Week B" are returned as they are;
\* normalising the result again gives the same result; a failed request
\* gives "Week B".
C17_Idempotent ==
    /\ wk_pc \in {"returned", "again"} /\ week_response.kind = "ok"
          /\ week_response.value.type = "str" =>
          LET s == week_response.value.s
          IN /\ Strip(s) \in BareLetters =>
                   week_type = JsonStr(<<"W", "e", "e", "k", " ", UpperChar(Strip(s)[1])>>)
             /\ s \in {<<"W", "e", "e", "k", " ", "A">>, <<"W", "e", "e", "k", " ", "B">>} =>
                   week_type = week_response.value
    /\ wk_pc = "again" => week_again = week_type
    /\ wk_pc \in {"returned", "again"} /\ week_response.kind \in {"failed", "not_json"} =>
          week_type = JsonStr(<<"W", "e", "e", "k", " ", "B">>)

====
